---- MODULE Spec2Model ----
(***************************************************************************)
(* pyabc/petab/amici.py: the AMICI/PEtab adapter.                           *)
(*                                                                         *)
(*   AmiciPetabImporter.__init__ / create_model   (lines 51-116)           *)
(*   AmiciPyABCModel.__call__      ("evaluate",    lines 155-183)          *)
(*   AmiciPyABCModel.__getstate__  ("capture",     lines 185-208)          *)
(*   AmiciPyABCModel.__setstate__  ("restore",     lines 210-236)          *)
(*                                                                         *)
(* Parameter ids are the integers 1..NumPar (id 0 is an id the problem     *)
(* does not declare).  A Python dict is a function from its key set to its *)
(* values; the empty dict is << >>.  A parameter object handed to the      *)
(* model is tagged with its kind ("seq" or "map"), since that is what      *)
(* isinstance(par, Mapping) inspects.                                      *)
(***************************************************************************)
EXTENDS Integers, Sequences, FiniteSets, TLC

VARIABLES importer, M, last, module_globals

vars == <<importer, M, last, module_globals>>

\* ------------------------------------------------------------------ bounds
NumPar == 2
MaxVal == 1
MaxCond == 2
MaxSensi == 1

Ids == 1..NumPar
Keys == 0..NumPar
Vals == 0..MaxVal

\* --------------------------------------------------------- small helpers
Min(a, b) == IF a < b THEN a ELSE b

Range(s) == {s[i] : i \in DOMAIN s}

\* A Python exception: its class and its args tuple.
Exc(type, args) == [type |-> type, args |-> args]
NoExc == Exc("None", << >>)

\* ---------------------------------------------- the Problem Descriptor
\* petab.Problem: per declared id whether it is estimated (ESTIMATE=1) and
\* its nominal value on the parameter scale; nCond simulation conditions.
\* The adapter moves nominal values and never inspects them, so one table
\* with a value of its own per id (as far as Vals has them) stands for all.
NominalValues == [i \in Ids |-> i % (MaxVal + 1)]

Problems ==
    {[est |-> e, nominal |-> NominalValues, nCond |-> n] :
        e \in [Ids -> BOOLEAN], n \in 1..MaxCond}

\* petab.Problem.get_x_ids(free, fixed): the declared ids, in table order,
\* whose kind is asked for.
RECURSIVE ApplyMask(_, _, _, _, _)
ApplyMask(p, v, free, fixed, i) ==
    IF i > NumPar THEN << >>
    ELSE (IF (p.est[i] /\ free) \/ (~p.est[i] /\ fixed)
          THEN <<v[i]>> ELSE << >>)
         \o ApplyMask(p, v, free, fixed, i + 1)

get_x_ids(p, free, fixed) ==
    ApplyMask(p, [i \in Ids |-> i], free, fixed, 1)

\* petab.Problem.get_x_nominal(scaled=True, free, fixed)
get_x_nominal(p, free, fixed) ==
    ApplyMask(p, p.nominal, free, fixed, 1)

\* ------------------------------------------------ the Simulator Handle
\* amici.Solver: its settings, here the sensitivity order.
SolverSettings == [sensi : 0..MaxSensi]

\* amici.petab_import.import_petab_problem(petab_problem)
import_petab_problem(p) == [compiled_from |-> p]

\* amici_model.getSolver(): a solver with the library's default settings
getSolver(model) == [sensi |-> 0]

\* solver.setSensitivityOrder(order)
setSensitivityOrder(solver, order) == [solver EXCEPT !.sensi = order]

\* amici.petab_objective.simulate_petab: a deterministic function of the
\* problem, the solver settings and the parameter mapping, kept here as the
\* term of its arguments.  The result has the log-likelihood and one rdata
\* per simulation condition.
simulate_petab(p, model, solver, par) ==
    [llh |-> <<"llh", p, solver, par>>,
     rdatas |-> [c \in 1..p.nCond |-> [y |-> <<"y", c, p, solver, par>>]]]

LLH == "llh"
RDATAS == "rdatas"

\* f'y_{i_rdata}'
YKey(i) == "y_" \o ToString(i)

\* --------------------------------------- AmiciPetabImporter.create_model
\* The attributes create_model hands to AmiciPyABCModel.__init__.
CreateModelAttrsSameFlags(imp, return_simulations, return_rdatas) ==
    LET p == imp.petab_problem
    IN [petab_problem |-> p,
        amici_model |-> imp.amici_model,
        amici_solver |-> setSensitivityOrder(imp.amici_solver, 0),
        x_ids |-> get_x_ids(p, imp.free_parameters, imp.fixed_parameters),
        x_fixed_ids |->
            get_x_ids(p, imp.free_parameters, imp.fixed_parameters),
        x_fixed_vals |->
            get_x_nominal(p, imp.free_parameters, imp.fixed_parameters),
        return_simulations |-> return_simulations,
        return_rdatas |-> return_rdatas]

CreateModelAttrs(imp, return_simulations, return_rdatas) ==
    LET p == imp.petab_problem
    IN [petab_problem |-> p,
        amici_model |-> imp.amici_model,
        amici_solver |-> setSensitivityOrder(imp.amici_solver, 0),
        x_ids |-> get_x_ids(p, imp.free_parameters, imp.fixed_parameters),
        x_fixed_ids |->
            get_x_ids(p, ~imp.free_parameters, ~imp.fixed_parameters),
        x_fixed_vals |->
            get_x_nominal(p, ~imp.free_parameters, ~imp.fixed_parameters),
        return_simulations |-> return_simulations,
        return_rdatas |-> return_rdatas]

\* ------------------------------------------- AmiciPyABCModel.__call__
\* copy.deepcopy(par): a new object with the same contents; the name par is
\* rebound to it.  The heap maps object names to objects.
AliasCopy(heap, ref) == [heap |-> heap, ref |-> ref]

DeepCopy(heap, ref) ==
    [heap |-> ("copy" :> heap[ref]) @@ heap, ref |-> "copy"]

\* {key: val for key, val in zip(x_ids, par)}: zip stops at the shorter of
\* the two; a later pair with the same key replaces an earlier one.
RECURSIVE ZipLast(_, _, _, _)
ZipLast(ids, vals, i, acc) ==
    IF i > Min(Len(ids), Len(vals)) THEN acc
    ELSE ZipLast(ids, vals, i + 1, (ids[i] :> vals[i]) @@ acc)

ZipStrict(ids, vals) ==
    IF Len(ids) = Len(vals) THEN ZipLast(ids, vals, 1, << >>) ELSE << >>

ZipDict(ids, vals) == ZipLast(ids, vals, 1, << >>)

\* lines 160-161: a parameter object that is not a Mapping is replaced by a
\* new dict pairing the stored ids with its entries.
NormalizeByPosition(self, heap, ref) ==
    IF heap[ref].kind = "map" THEN [heap |-> heap, ref |-> ref]
    ELSE [heap |-> ("dict" :> [kind |-> "map",
                               val |-> [i \in 1..Min(Len(self.x_ids),
                                                     Len(heap[ref].val))
                                          |-> heap[ref].val[i]]]) @@ heap,
          ref |-> "dict"]

Normalize(self, heap, ref) ==
    IF heap[ref].kind = "map" THEN [heap |-> heap, ref |-> ref]
    ELSE [heap |-> ("dict" :> [kind |-> "map",
                               val |-> ZipDict(self.x_ids, heap[ref].val)])
                   @@ heap,
          ref |-> "dict"]

\* lines 164-165: for key, val in zip(x_fixed_ids, x_fixed_vals): par[key] = val
MergeFixedSetDefault(d, ids, vals) == d @@ ZipDict(ids, vals)

MergeFixed(d, ids, vals) == ZipLast(ids, vals, 1, d)

\* lines 176-181: the mapping returned to the caller.
ShapeResultSwapped(self, sim) ==
    (LLH :> sim[LLH])
    @@ (IF self.return_rdatas
        THEN [k \in {YKey(i - 1) : i \in DOMAIN sim[RDATAS]} |->
                LET i == CHOOSE i \in DOMAIN sim[RDATAS] : YKey(i - 1) = k
                IN sim[RDATAS][i].y]
        ELSE << >>)
    @@ (IF self.return_simulations THEN (RDATAS :> sim[RDATAS]) ELSE << >>)

ShapeResult(self, sim) ==
    (LLH :> sim[LLH])
    @@ (IF self.return_simulations
        THEN [k \in {YKey(i - 1) : i \in DOMAIN sim[RDATAS]} |->
                LET i == CHOOSE i \in DOMAIN sim[RDATAS] : YKey(i - 1) = k
                IN sim[RDATAS][i].y]
        ELSE << >>)
    @@ (IF self.return_rdatas THEN (RDATAS :> sim[RDATAS]) ELSE << >>)

\* One call self(par).  arg is the caller's object, simFails whether the
\* simulator raises on this call.  The record keeps what the caller and a
\* recording simulator can observe.
EvaluateRun(self, arg, simFails) ==
    LET c == DeepCopy(("caller" :> arg), "caller")
        n == Normalize(self, c.heap, c.ref)
        heap == [n.heap EXCEPT ![n.ref].val =
                     MergeFixed(@, self.x_fixed_ids, self.x_fixed_vals)]
        par == heap[n.ref].val
        sim == simulate_petab(self.petab_problem, self.amici_model,
                              self.amici_solver, par)
    IN [op |-> "evaluate",
        arg |-> arg,
        caller_after |-> heap["caller"],
        sim_called |-> TRUE,
        sim_arg |-> par,
        sim |-> sim,
        outcome |-> IF simFails THEN "raised" ELSE "returned",
        exc |-> IF simFails THEN Exc("RuntimeError", <<"simulation failed">>)
                ELSE NoExc,
        ret |-> IF simFails THEN << >> ELSE ShapeResult(self, sim)]

SeqInputs ==
    {[kind |-> "seq", val |-> s] :
        s \in UNION {[1..n -> Vals] : n \in 0..(NumPar + 1)}}

MapInputs ==
    {[kind |-> "map", val |-> m] :
        m \in UNION {[S -> Vals] : S \in SUBSET Keys}}

ParInputs == SeqInputs \cup MapInputs

\* ------------------------------------------------ names and the file system
\* The names the module binds at import time (lines 1-23).  A call looks a
\* global name up in the module namespace when the line runs; a name that is
\* not bound there raises NameError.
ModuleNames ==
    {"logging", "Sequence", "Mapping", "Callable", "Union", "Dict", "copy",
     "pyabc", "PetabImporter", "logger", "petab", "amici", "simulate_petab",
     "LLH", "RDATAS"}

NameError(name) ==
    Exc("NameError", <<"name '" \o name \o "' is not defined">>)

HintCapture ==
    "Pickling the AmiciObjective requires an AMICI installation with HDF5 support."

HintRestore ==
    "Unpickling an AmiciObjective requires an AMICI installation with HDF5 support."

\* What the environment does during one capture or restore:
\*   hdf5   the outcome of amici.writeSolverSettingsToHDF5 /
\*          amici.readSolverSettingsFromHDF5 ("AttributeError": the
\*          installed AMICI has no HDF5 support), with the args the library
\*          gave the exception;
\*   io     the outcome of reading / writing the bytes through the descriptor;
\*   close, remove   the outcomes of os.close and os.remove;
\*   fd_after        whether the descriptor is still open after a failed close.
Envs ==
    [hdf5 : {"ok", "AttributeError", "RuntimeError"},
     orig_args : {<< >>, <<"module 'amici' has no attribute">>},
     io : {"ok", "OSError"},
     close : {"ok", "OSError"},
     remove : {"ok", "OSError"},
     fd_after : BOOLEAN]

\* The environments in which the library and the operating system do not fail.
OkEnvs ==
    {e \in Envs : e.hdf5 = "ok" /\ e.io = "ok" /\ e.close = "ok"
                   /\ e.remove = "ok"}

\* The solver settings as the bytes of the HDF5 file, and back.
WriteSolverSettingsToHDF5(solver) == <<"HDF", solver.sensi + 1>>

ReadSolverSettingsFromHDF5(bytes, solver) ==
    [solver EXCEPT !.sensi = bytes[2] - 1]

\* The finally clause (lines 203-206, 230-233): os.close(_fd), then
\* os.remove(_file).  An exception raised here ends the clause at once and
\* replaces the exception the try body was propagating.
Cleanup(ns, env) ==
    IF "os" \notin ns
    THEN [exc |-> NameError("os"), file_exists |-> TRUE, fd_open |-> TRUE]
    ELSE IF env.close # "ok"
    THEN [exc |-> Exc("OSError", <<"close">>),
          file_exists |-> TRUE, fd_open |-> env.fd_after]
    ELSE IF env.remove # "ok"
    THEN [exc |-> Exc("OSError", <<"remove">>),
          file_exists |-> TRUE, fd_open |-> FALSE]
    ELSE [exc |-> NoExc, file_exists |-> FALSE, fd_open |-> FALSE]

\* try ... finally: the exception that leaves the statement.
FinallyKeepsFirst(body_exc, cleanup_exc) ==
    IF body_exc # NoExc THEN body_exc ELSE cleanup_exc

Finally(body_exc, cleanup_exc) ==
    IF cleanup_exc # NoExc THEN cleanup_exc ELSE body_exc

\* ----------------------------------------- AmiciPyABCModel.__getstate__
\* lines 186-188: every attribute but the two live handles.
PlainAttrs(self) ==
    [k \in DOMAIN self \ {"amici_model", "amici_solver"} |-> self[k]]

\* lines 193-202: the try body.  Its exception (NoExc if none) and the
\* snapshot as far as it got.
GetstateBody(self, state, env) ==
    IF env.hdf5 = "AttributeError"
    THEN [exc |-> Exc("AttributeError", env.orig_args \o <<HintCapture>>),
          lib_exc |-> Exc("AttributeError", env.orig_args),
          state |-> state]
    ELSE IF env.hdf5 = "RuntimeError"
    THEN [exc |-> Exc("RuntimeError", env.orig_args),
          lib_exc |-> Exc("RuntimeError", env.orig_args),
          state |-> state]
    ELSE IF env.io # "ok"
    THEN [exc |-> Exc("OSError", <<"read">>), lib_exc |-> NoExc,
          state |-> state]
    ELSE [exc |-> NoExc, lib_exc |-> NoExc,
          state |-> ("amici_solver_settings" :>
                        WriteSolverSettingsToHDF5(self.amici_solver))
                    @@ state]

GetstateRun(self, ns, env) ==
    LET state == PlainAttrs(self)
        body == GetstateBody(self, state, env)
        cl == Cleanup(ns, env)
        exc == Finally(body.exc, cl.exc)
    IN IF "tempfile" \notin ns
       THEN [op |-> "getstate", outcome |-> "raised",
             exc |-> NameError("tempfile"), state |-> << >>,
             acquired |-> FALSE, file_exists |-> FALSE, fd_open |-> FALSE,
             body_exc |-> NoExc, cleanup_exc |-> NoExc, lib_exc |-> NoExc,
             env_ok |-> env \in OkEnvs,
             obj |-> self]
       ELSE [op |-> "getstate",
             outcome |-> IF exc = NoExc THEN "returned" ELSE "raised",
             exc |-> exc,
             state |-> IF exc = NoExc THEN body.state ELSE << >>,
             acquired |-> TRUE,
             file_exists |-> cl.file_exists, fd_open |-> cl.fd_open,
             body_exc |-> body.exc, cleanup_exc |-> cl.exc,
             lib_exc |-> body.lib_exc, env_ok |-> env \in OkEnvs,
             obj |-> self]

\* ----------------------------------------- AmiciPyABCModel.__setstate__
\* lines 218-229: the try body, and the solver as far as it was configured.
SetstateBody(state, solver, env) ==
    IF env.io # "ok"
    THEN [exc |-> Exc("OSError", <<"write">>), lib_exc |-> NoExc,
          solver |-> solver]
    ELSE IF env.hdf5 = "AttributeError"
    THEN [exc |-> Exc("AttributeError",
                      (IF env.orig_args = << >> THEN <<"">>
                       ELSE env.orig_args) \o <<HintRestore>>),
          lib_exc |-> Exc("AttributeError", env.orig_args),
          solver |-> solver]
    ELSE IF env.hdf5 = "RuntimeError"
    THEN [exc |-> Exc("RuntimeError", env.orig_args),
          lib_exc |-> Exc("RuntimeError", env.orig_args),
          solver |-> solver]
    ELSE [exc |-> NoExc, lib_exc |-> NoExc,
          solver |-> ReadSolverSettingsFromHDF5(
                         state["amici_solver_settings"], solver)]

\* dict is the object's __dict__ before the call (<< >> for the fresh object
\* unpickling creates).
SetstateRun(dict, state, ns, env) ==
    LET d1 == state @@ dict
        model == import_petab_problem(d1["petab_problem"])
        solver == getSolver(model)
        body == SetstateBody(state, solver, env)
        cl == Cleanup(ns, env)
        exc == Finally(body.exc, cl.exc)
    IN IF "tempfile" \notin ns
       THEN [op |-> "setstate", outcome |-> "raised",
             exc |-> NameError("tempfile"), state |-> state,
             acquired |-> FALSE, file_exists |-> FALSE, fd_open |-> FALSE,
             body_exc |-> NoExc, cleanup_exc |-> NoExc, lib_exc |-> NoExc,
             env_ok |-> env \in OkEnvs,
             obj |-> d1]
       ELSE [op |-> "setstate",
             outcome |-> IF exc = NoExc THEN "returned" ELSE "raised",
             exc |-> exc,
             state |-> state,
             acquired |-> TRUE,
             file_exists |-> cl.file_exists, fd_open |-> cl.fd_open,
             body_exc |-> body.exc, cleanup_exc |-> cl.exc,
             lib_exc |-> body.lib_exc, env_ok |-> env \in OkEnvs,
             obj |-> IF exc = NoExc
                     THEN ("amici_model" :> model)
                          @@ ("amici_solver" :> body.solver) @@ d1
                     ELSE d1]

\* A snapshot of self as a process with the given solver settings captures it.
Snapshot(self, settings) ==
    ("amici_solver_settings" :> WriteSolverSettingsToHDF5(settings))
    @@ PlainAttrs(self)

\* ------------------------------------------------------------ the machine
\* last is the outcome of the call the host made last, as the host and a
\* recording simulator see it; Idle when the host holds no outcome.
Idle == [op |-> "idle"]

Created == "x_ids" \in DOMAIN M

\* AmiciPetabImporter.__init__ (lines 51-70) has run; no model created yet.
InitImporter ==
    /\ \E p \in Problems, s \in SolverSettings, free, fixed \in BOOLEAN :
          importer = [petab_problem |-> p,
                      amici_model |-> import_petab_problem(p),
                      amici_solver |-> s,
                      free_parameters |-> free,
                      fixed_parameters |-> fixed]
    /\ M = << >>
    /\ last = Idle

\* The module as the source has it: lines 1-23 bind neither tempfile nor os.
Init ==
    /\ InitImporter
    /\ module_globals = ModuleNames

\* The module with tempfile and os bound in its namespace by the host, the
\* only condition under which lines 191-206 and 217-236 run.
InitBound ==
    /\ InitImporter
    /\ module_globals = ModuleNames \cup {"tempfile", "os"}

CreateModel ==
    /\ \E return_simulations, return_rdatas \in BOOLEAN :
          M' = CreateModelAttrs(importer, return_simulations, return_rdatas)
    /\ importer' = [importer EXCEPT
                       !.amici_solver = setSensitivityOrder(@, 0)]
    /\ last = Idle
    /\ UNCHANGED <<last, module_globals>>

Evaluate ==
    /\ Created
    /\ last = Idle
    /\ \E arg \in ParInputs, simFails \in BOOLEAN :
          last' = EvaluateRun(M, arg, simFails)
    /\ UNCHANGED <<importer, M, module_globals>>

Getstate ==
    /\ Created
    /\ last = Idle
    /\ \E env \in Envs : last' = GetstateRun(M, module_globals, env)
    /\ UNCHANGED <<importer, M, module_globals>>

Setstate ==
    /\ Created
    /\ last = Idle
    /\ \E settings \in SolverSettings, env \in Envs :
          last' = SetstateRun(<< >>, Snapshot(M, settings),
                              module_globals, env)
    /\ UNCHANGED <<importer, M, module_globals>>

\* The host takes the outcome of the call and goes on.
HostContinues ==
    /\ last # Idle
    /\ last' = Idle
    /\ UNCHANGED <<importer, M, module_globals>>

Next == CreateModel \/ Evaluate \/ Getstate \/ Setstate \/ HostContinues

Spec == Init /\ [][Next]_vars

SpecBound == InitBound /\ [][Next]_vars

TypeOK ==
    /\ last.op \in {"idle", "evaluate", "getstate", "setstate"}
    /\ Created => M.amici_solver.sensi = 0

\* ------------------------------------------------------------- the claims
IsEval == last.op = "evaluate"
IsPickle == last.op \in {"getstate", "setstate"}

\* C1: capture followed by restore preserves evaluation: in an environment
\* where neither the library nor the operating system fails, __getstate__
\* returns a snapshot, __setstate__ with it on a fresh object returns, and the
\* restored object evaluates every parameter set to the same result as M.
C1_RoundTripPreservesEvaluation ==
    (last.op = "getstate" /\ last.env_ok) =>
        /\ last.outcome = "returned"
        /\ \A env \in OkEnvs :
              LET R == SetstateRun(<< >>, last.state, module_globals, env)
              IN /\ R.outcome = "returned"
                 /\ \A P \in ParInputs :
                       EvaluateRun(R.obj, P, FALSE).ret
                           = EvaluateRun(M, P, FALSE).ret

C3_FixedValuesWin ==
    (IsEval /\ last.arg.kind = "map") =>
        LET m == last.arg.val
            a == last.sim_arg
            fixed == Range(M.x_fixed_ids)
        IN /\ last.sim_called
           /\ DOMAIN a = DOMAIN m \cup fixed
           /\ \A i \in DOMAIN M.x_fixed_ids :
                 a[M.x_fixed_ids[i]] = M.x_fixed_vals[i]
           /\ \A k \in DOMAIN m \ fixed : a[k] = m[k]

C3_Witness ==
    /\ IsEval
    /\ last.arg.kind = "map"
    /\ \E i \in DOMAIN M.x_fixed_ids :
          /\ M.x_fixed_ids[i] \in DOMAIN last.arg.val
          /\ last.arg.val[M.x_fixed_ids[i]] # M.x_fixed_vals[i]
    /\ \E k \in DOMAIN last.arg.val : k \notin Range(M.x_fixed_ids)

C5_LengthMismatchIsError ==
    (IsEval /\ last.arg.kind = "seq" /\ Len(last.arg.val) # Len(M.x_ids)) =>
        /\ last.outcome = "raised"
        /\ ~last.sim_called

\* C5 as amended: a sequence of any length is paired with x_ids up to the
\* shorter of the two, the simulator is invoked with that mapping plus the
\* fixed parameters, and the only error is one the simulator raises.
C5_LengthMismatchTruncates ==
    (IsEval /\ last.arg.kind = "seq") =>
        LET s == last.arg.val
            a == last.sim_arg
            n == Min(Len(M.x_ids), Len(s))
        IN /\ last.sim_called
           /\ DOMAIN a = {M.x_ids[i] : i \in 1..n} \cup Range(M.x_fixed_ids)
           /\ \A i \in 1..n : a[M.x_ids[i]] = s[i]
           /\ \A i \in DOMAIN M.x_fixed_ids :
                 a[M.x_fixed_ids[i]] = M.x_fixed_vals[i]
           /\ last.outcome = "raised" => last.exc.type = "RuntimeError"

C5_Witness ==
    /\ IsEval
    /\ last.arg.kind = "seq"
    /\ Len(last.arg.val) > Len(M.x_ids)
    /\ Len(M.x_ids) > 0
    /\ last.outcome = "returned"

\* C6: evaluate leaves the caller's parameter object as it was, whether it
\* returns or raises.
C6_CallerObjectUnchanged ==
    IsEval => last.caller_after = last.arg

C6_Witness ==
    /\ IsEval
    /\ last.arg.kind = "map"
    /\ last.sim_arg # last.arg.val
    /\ DOMAIN last.sim_arg = DOMAIN last.arg.val
    /\ last.outcome = "raised"

\* C7: a sequence as long as x_ids and the mapping that pairs x_ids with it
\* position by position reach the simulator as the same mapping and give the
\* same result.
C7_SequenceEqualsZippedMapping ==
    (IsEval /\ last.arg.kind = "seq" /\ Len(last.arg.val) = Len(M.x_ids)) =>
        LET s == last.arg.val
            m == [k \in Range(M.x_ids) |->
                    s[CHOOSE i \in DOMAIN M.x_ids : M.x_ids[i] = k]]
            r == EvaluateRun(M, [kind |-> "map", val |-> m],
                             last.outcome = "raised")
        IN /\ last.sim_arg = r.sim_arg
           /\ last.outcome = r.outcome
           /\ last.ret = r.ret

C7_Witness ==
    /\ IsEval
    /\ last.arg.kind = "seq"
    /\ Len(last.arg.val) = Len(M.x_ids)
    /\ Len(M.x_ids) \in 1..(NumPar - 1)
    /\ last.outcome = "returned"

\* C8: the keys of the returned mapping are 'llh', one y_<index> per
\* simulation condition exactly when return_simulations is set, each holding
\* that condition's trajectory, and the raw results exactly when
\* return_rdatas is set.
C8_ResultKeys ==
    (IsEval /\ last.outcome = "returned") =>
        LET n == M.petab_problem.nCond
        IN /\ DOMAIN last.ret =
                 {"llh"}
                 \cup (IF M.return_simulations
                       THEN {YKey(c) : c \in 0..(n - 1)} ELSE {})
                 \cup (IF M.return_rdatas THEN {"rdatas"} ELSE {})
           /\ last.ret["llh"] = last.sim.llh
           /\ M.return_simulations =>
                 \A c \in 0..(n - 1) :
                    last.ret[YKey(c)] = last.sim.rdatas[c + 1].y
           /\ M.return_rdatas => last.ret["rdatas"] = last.sim.rdatas

C8_Witness ==
    /\ IsEval
    /\ last.outcome = "returned"
    /\ M.return_simulations
    /\ ~M.return_rdatas
    /\ M.petab_problem.nCond = MaxCond

C10_IdPartition ==
    Created =>
        /\ Range(M.x_ids) \cap Range(M.x_fixed_ids) = {}
        /\ Range(M.x_ids) \cup Range(M.x_fixed_ids) = Ids
        /\ Len(M.x_ids) + Len(M.x_fixed_ids) = NumPar
        /\ Len(M.x_fixed_vals) = Len(M.x_fixed_ids)
        /\ \A i \in DOMAIN M.x_fixed_ids :
              M.x_fixed_vals[i] = M.petab_problem.nominal[M.x_fixed_ids[i]]

C10_Witness ==
    /\ Created
    /\ M.x_ids # << >>
    /\ M.x_fixed_ids # << >>
    /\ importer.fixed_parameters
    /\ ~importer.free_parameters

====
